---- MODULE Spec2Model ----
(***************************************************************************)
(* A model of geniusrise_healthcare: the core operations of base.py        *)
(* (semantic_search_snomed, generate_snomed_graph_from_concepts) and the   *)
(* InPatientAPI handlers of genius.py that call them.                      *)
(*                                                                         *)
(* Concept identifiers are integers (snomed_concepts: List[List[int]],    *)
(* int(x[0]) in semantic_search_snomed); the keys of concept_id_to_concept *)
(* are strings (Dict[str, str]), so every node lookup goes through str().  *)
(* A relationship_type is stored on an edge as the string it is looked up  *)
(* with (base.py:238 indexes the dictionary with it directly).             *)
(*                                                                         *)
(* geniusrise_healthcare.search (find_adjacent_nodes,                      *)
(* find_semantically_similar_nodes) and geniusrise_healthcare.util         *)
(* (draw_subgraph) are not among the source files; they are modelled from  *)
(* sections 4.2, 4.3 and 4.4 of the specification.                         *)
(***************************************************************************)
EXTENDS Integers, Sequences, FiniteSets, TLC

VARIABLES
    heap,                   \* graph objects: heap[GRef] is self.G, heap[r] is request r's composed_graph
    G_loaded,               \* the graph as load_models left it (history, never read by the program)
    concept_id_to_concept,  \* self.concept_id_to_concept: name lookup, keyed by str(id)
    workload,               \* the kind of request bodies clients send to /graph
    workers,                \* the server threads that take /graph requests
    req,                    \* per graph request: position in the handler, locals, response
    search,                 \* the semantic search in progress: position, locals, result
    names,                  \* the follow-up or summary call in progress: its input and result
    http,                   \* the authenticated request in progress: parameters, header, outcome
    umls                    \* the UMLS graph under process_semantic_types_file: nodes' semantic_types, rows

vars == <<heap, G_loaded, concept_id_to_concept, workload, workers, req, search, names, http, umls>>

---------------------------------------------------------------------------
(* Bounds *)

MaxNode == 3
MaxMissing == 2
MaxEdges == 2
MaxGroups == 2
MaxGroupLen == 2
MaxDepth == 1
NumReqs == 2
MaxConcept == 4
MaxRaw == 4
MaxTerms == 2
MaxTopK == 3
MaxCred == 2
MaxDecoded == 4
MaxRows == 2
MaxFiles == 2

NodeIds == 1..MaxNode
RelTypes == {"5", "6"}
GRef == 0
Reqs == 1..NumReqs

---------------------------------------------------------------------------
(* Sequences *)

InSeq(x, s) == \E i \in 1..Len(s) : s[i] = x

SeqsUpTo(S, n) == UNION {[1..k -> S] : k \in 0..n}

Range(s) == {s[i] : i \in 1..Len(s)}

\* s[:k] of Python for k >= 0; a negative k drops the last -k elements
Take(s, k) ==
    IF k < 0 THEN (IF Len(s) + k <= 0 THEN <<>> ELSE SubSeq(s, 1, Len(s) + k))
    ELSE IF k >= Len(s) THEN s ELSE SubSeq(s, 1, k)

\* data.get(key, default) of a request body
data_get(data, key, default) == IF key \in data.keys THEN data[key] ELSE default

---------------------------------------------------------------------------
(* str() and the name lookup *)

Decimal == <<"1", "2", "3", "4", "5", "6", "7", "8", "9">>

\* str(n) for a concept identifier n
str(n) == Decimal[n]

Keys == {str(n) : n \in NodeIds} \cup RelTypes

\* the lookup load_concept_dict returns: some of the keys, each with its name
ConceptDict(D) == [k \in D |-> "c" \o k]

\* concept_id_to_concept.get(str(node), node), as the f-string then shows it
dict_get_mutant(d, node) == str(node)
dict_get(d, node) == IF str(node) \in DOMAIN d THEN d[str(node)] ELSE str(node)

---------------------------------------------------------------------------
(* networkx.DiGraph: nodes in insertion order, successors of each node in  *)
(* insertion order, one attribute (relationship_type) per edge.            *)

EmptyGraph ==
    [nodes |-> <<>>, adj |-> [n \in NodeIds |-> <<>>], rel |-> [e \in {} |-> ""]]

has_node(g, n) == InSeq(n, g.nodes)

has_edge(g, u, v) == <<u, v>> \in DOMAIN g.rel

add_node(g, n) == IF has_node(g, n) THEN g ELSE [g EXCEPT !.nodes = Append(@, n)]

add_edge(g, u, v, r) ==
    LET g1 == add_node(add_node(g, u), v)
    IN  [g1 EXCEPT !.adj[u] = IF InSeq(v, @) THEN @ ELSE Append(@, v),
                   !.rel = [e \in (DOMAIN g1.rel) \cup {<<u, v>>} |->
                               IF e = <<u, v>> THEN r ELSE g1.rel[e]]]

RECURSIVE add_nodes_from(_, _)
add_nodes_from(g, ns) ==
    IF ns = <<>> THEN g ELSE add_nodes_from(add_node(g, Head(ns)), Tail(ns))

RECURSIVE add_edges_from(_, _)
add_edges_from(g, es) ==
    IF es = <<>> THEN g
    ELSE add_edges_from(add_edge(g, Head(es)[1], Head(es)[2], Head(es)[3]), Tail(es))

\* the edges <<u, v, relationship_type>> of u, in adjacency order
out_edges(g, u) == [i \in 1..Len(g.adj[u]) |-> <<u, g.adj[u][i], g.rel[<<u, g.adj[u][i]>>]>>]

\* g.edges(data=True): node by node in node order, each node's successors in order
RECURSIVE edges_from(_, _)
edges_from(g, ns) ==
    IF ns = <<>> THEN <<>> ELSE out_edges(g, Head(ns)) \o edges_from(g, Tail(ns))

edges(g) == edges_from(g, g.nodes)

NodeSet(g) == Range(g.nodes)

EdgeSet(g) == DOMAIN g.rel

\* G.copy(): a new graph given the nodes, then the edges, of g
copy(g) == add_edges_from(add_nodes_from(EmptyGraph, g.nodes), edges(g))

\* nx.compose(g, h): a new graph given g's nodes, h's nodes, g's edges, h's edges
compose_mutant(g, h) == copy(h)
compose(g, h) ==
    add_edges_from(
        add_edges_from(add_nodes_from(add_nodes_from(EmptyGraph, g.nodes), h.nodes), edges(g)),
        edges(h))

---------------------------------------------------------------------------
(* search.find_adjacent_nodes, from section 4.3 of the specification:      *)
(* breadth-first to `n` hops over successors and predecessors, at most     *)
(* top_n neighbours per node per hop (0: all), one induced subgraph per    *)
(* seed, an empty subgraph for a seed that is not in the graph.            *)

predecessors(g, u) == SelectSeq(g.nodes, LAMBDA p : InSeq(u, g.adj[p]))

neighbors(g, u, top_n) ==
    LET all == g.adj[u] \o predecessors(g, u)
    IN  IF top_n = 0 THEN all ELSE Take(all, top_n)

RECURSIVE bfs(_, _, _, _, _)
bfs(g, visited, frontier, n, top_n) ==
    IF n <= 0 \/ frontier = {} THEN visited
    ELSE LET next == (UNION {Range(neighbors(g, u, top_n)) : u \in frontier}) \ visited
         IN  bfs(g, visited \cup next, next, n - 1, top_n)

\* G.subgraph(S): the nodes of S and the edges of g between them, in g's order
subgraph(g, S) ==
    [nodes |-> SelectSeq(g.nodes, LAMBDA x : x \in S),
     adj   |-> [u \in NodeIds |->
                   IF u \in S THEN SelectSeq(g.adj[u], LAMBDA v : v \in S) ELSE <<>>],
     rel   |-> [e \in {f \in DOMAIN g.rel : f[1] \in S /\ f[2] \in S} |-> g.rel[e]]]

expand_seed(g, seed, n, top_n) ==
    IF has_node(g, seed) THEN subgraph(g, bfs(g, {seed}, {seed}, n, top_n)) ELSE EmptyGraph

find_adjacent_nodes(source_nodes, g, n, top_n) ==
    [i \in 1..Len(source_nodes) |-> expand_seed(g, source_nodes[i], n, top_n)]

---------------------------------------------------------------------------
(* generate_snomed_graph_from_concepts *)

\* base.py:212-215: the subgraphs of every seed of every group, in order
RECURSIVE expand_groups(_, _, _, _)
expand_groups(snomed_concepts, g, n, top_n) ==
    IF snomed_concepts = <<>> THEN <<>>
    ELSE find_adjacent_nodes(Head(snomed_concepts), g, n, top_n)
             \o expand_groups(Tail(snomed_concepts), g, n, top_n)

expand_all_mutant(snomed_concepts, g, graph_search_depth) ==
    expand_groups(snomed_concepts, g, graph_search_depth + 1, 0)
expand_all(snomed_concepts, g, graph_search_depth) ==
    expand_groups(snomed_concepts, g, graph_search_depth, 0)

\* base.py:217-219: subgraphs[0].copy(), then nx.compose with each of subgraphs[1:]
RECURSIVE compose_fold(_, _)
compose_fold(composed_graph, rest) ==
    IF rest = <<>> THEN composed_graph
    ELSE compose_fold(compose(composed_graph, Head(rest)), Tail(rest))

compose_all(subgraphs) == compose_fold(copy(subgraphs[1]), Tail(subgraphs))

\* the object the composition is bound to: the request's own composed_graph
ComposeDest_mutant(r) == GRef
ComposeDest(r) == r

\* base.py:238 raises KeyError for a relationship_type that is not a key
raises_KeyError(g, d) == \E i \in 1..Len(edges(g)) : edges(g)[i][3] \notin DOMAIN d

\* base.py:233-239: the line of one edge
edge_line(d, edge) ==
    dict_get(d, edge[1]) \o " --[" \o d[edge[3]] \o "]--> " \o dict_get(d, edge[2])

\* base.py:231-239: human_readable_str, as its lines
human_readable_str(g, d) ==
    <<"Graph:">> \o [i \in 1..Len(edges(g)) |-> edge_line(d, edges(g)[i])]

---------------------------------------------------------------------------
(* search.find_semantically_similar_nodes, from section 4.2 of the          *)
(* specification: the hits of the index for the vectors of one term, those  *)
(* under the cutoff discarded, one entry per concept with its highest       *)
(* score, in descending order of score (hits of equal score in the order    *)
(* they were first seen).  A hit is <<concept id, score>>, the score in     *)
(* tenths.  The token-span length only chooses between two hits of the same *)
(* concept and score, which does not show in the (concept id, score) list.  *)
(* base.py:93-97 passes no top_k: the caller truncates.                     *)

ConceptIds == 1..MaxConcept
ScoreLevels == {5, 6, 9}
Hits == {<<c, sc>> : c \in ConceptIds, sc \in ScoreLevels}

RECURSIVE merge_hits(_, _)
merge_hits(acc, hits) ==
    IF hits = <<>> THEN acc
    ELSE LET h == Head(hits)
             at == {i \in 1..Len(acc) : acc[i][1] = h[1]}
         IN  IF at = {} THEN merge_hits(Append(acc, h), Tail(hits))
             ELSE LET i == CHOOSE j \in at : TRUE
                  IN  merge_hits(IF h[2] > acc[i][2] THEN [acc EXCEPT ![i] = h] ELSE acc,
                                 Tail(hits))

RECURSIVE insert_by_score(_, _)
insert_by_score(sorted, h) ==
    IF sorted = <<>> THEN <<h>>
    ELSE IF h[2] > Head(sorted)[2] THEN <<h>> \o sorted
    ELSE <<Head(sorted)>> \o insert_by_score(Tail(sorted), h)

RECURSIVE sort_by_score(_, _)
sort_by_score(acc, hits) ==
    IF hits = <<>> THEN acc ELSE sort_by_score(insert_by_score(acc, Head(hits)), Tail(hits))

find_semantically_similar_nodes(hits, cutoff_score) ==
    sort_by_score(<<>>, merge_hits(<<>>, SelectSeq(hits, LAMBDA h : h[2] >= cutoff_score)))

---------------------------------------------------------------------------
(* semantic_search_snomed *)

DefaultCutoff == 9
DefaultTopK == 3
EndpointCutoff == 6
Cutoffs == {EndpointCutoff, DefaultCutoff}

\* list(set(ids)) in CPython: a set of at most 4 small integers sits in a table
\* of 8 slots, each at slot id mod 8, and is listed slot by slot (identifiers
\* stay under 8 here, so no two share a slot)
RECURSIVE list_by_slot(_, _)
list_by_slot(S, slot) ==
    IF slot >= 8 THEN <<>>
    ELSE (IF \E x \in S : x % 8 = slot THEN <<CHOOSE x \in S : x % 8 = slot>> ELSE <<>>)
             \o list_by_slot(S, slot + 1)

list_set(ids) == list_by_slot(Range(ids), 0)

\* base.py:100-101: the identifiers of closest_nodes[:top_k], through a set
ids_of_group_mutant(closest_nodes, top_k) ==
    list_set([i \in 1..Len(closest_nodes) |-> closest_nodes[i][1]])
ids_of_group(closest_nodes, top_k) ==
    LET top == Take(closest_nodes, top_k)
    IN  list_set([i \in 1..Len(top) |-> top[i][1]])

\* base.py:99-101: a term with no node found adds no group
append_group_mutant(snomed_concept_ids, closest_nodes, top_k) ==
    Append(snomed_concept_ids, ids_of_group(closest_nodes, top_k))
append_group(snomed_concept_ids, closest_nodes, top_k) ==
    IF Len(closest_nodes) > 0
        THEN Append(snomed_concept_ids, ids_of_group(closest_nodes, top_k))
        ELSE snomed_concept_ids

\* base.py:107: concept_id_to_concept[str(y)] raises KeyError for a missing key
names_raise_KeyError(d, snomed_concept_ids) ==
    \E i \in 1..Len(snomed_concept_ids) : \E j \in 1..Len(snomed_concept_ids[i]) :
        str(snomed_concept_ids[i][j]) \notin DOMAIN d

names_of(d, snomed_concept_ids) ==
    [i \in 1..Len(snomed_concept_ids) |->
        [j \in 1..Len(snomed_concept_ids[i]) |-> d[str(snomed_concept_ids[i][j])]]]

\* what find_semantically_similar_nodes can return for one term, per cutoff
SearchOutputs ==
    [c \in Cutoffs |-> {find_semantically_similar_nodes(hits, c) : hits \in SeqsUpTo(Hits, MaxRaw)}]

NoResult == [status |-> "none", error |-> "", snomed_concept_ids |-> <<>>, snomed_concepts |-> <<>>]

IdleSearch ==
    [pc |-> "idle", via |-> "", terms |-> 0, done |-> 0,
     semantic_similarity_cutoff |-> 0, top_k |-> 0,
     snomed_concept_ids |-> <<>>, found |-> <<>>, group_of |-> <<>>, result |-> NoResult]

\* cherrypy.request.json of a /semantic_search request: the number of terms of
\* symptoms_diseases (none when the key is missing) and the cutoff, if given
SearchBodies ==
    {[keys |-> K, symptoms_diseases |-> n, semantic_similarity_cutoff |-> c] :
        K \in SUBSET {"symptoms_diseases", "semantic_similarity_cutoff"},
        n \in 0..MaxTerms, c \in Cutoffs}

\* genius.py:111-127: the endpoint forwards the terms and the cutoff; top_k is
\* left to its default
SemanticSearchEndpoint ==
    /\ search.pc = "idle"
    /\ \E data \in SearchBodies :
          search' = [IdleSearch EXCEPT
                        !.pc = "loop", !.via = "endpoint",
                        !.terms = data_get(data, "symptoms_diseases", 0),
                        !.semantic_similarity_cutoff =
                            data_get(data, "semantic_similarity_cutoff", EndpointCutoff),
                        !.top_k = DefaultTopK]
    /\ UNCHANGED <<heap, G_loaded, concept_id_to_concept, workload, workers, req, names, http, umls>>

\* base.py:59-69: a caller of the function chooses the cutoff and top_k
SemanticSearchCall ==
    /\ search.pc = "idle"
    /\ \E n \in 0..MaxTerms, c \in Cutoffs, k \in 1..MaxTopK :
          search' = [IdleSearch EXCEPT
                        !.pc = "loop", !.via = "call", !.terms = n,
                        !.semantic_similarity_cutoff = c, !.top_k = k]
    /\ UNCHANGED <<heap, G_loaded, concept_id_to_concept, workload, workers, req, names, http, umls>>

\* base.py:88-101: one term of the loop
SearchTerm ==
    /\ search.pc = "loop"
    /\ search.done < search.terms
    /\ \E closest_nodes \in SearchOutputs[search.semantic_similarity_cutoff] :
          LET ids == append_group(search.snomed_concept_ids, closest_nodes, search.top_k)
          IN  search' = [search EXCEPT
                           !.done = @ + 1,
                           !.snomed_concept_ids = ids,
                           !.found = Append(@, Range(closest_nodes)),
                           !.group_of = Append(@, IF Len(ids) > Len(search.snomed_concept_ids)
                                                     THEN Len(ids) ELSE 0)]
    /\ UNCHANGED <<heap, G_loaded, concept_id_to_concept, workload, workers, req, names, http, umls>>

\* base.py:103-108
SearchReturn ==
    /\ search.pc = "loop"
    /\ search.done = search.terms
    /\ search' = [search EXCEPT
                    !.pc = "done",
                    !.result =
                        IF names_raise_KeyError(concept_id_to_concept, search.snomed_concept_ids)
                            THEN [NoResult EXCEPT !.status = "error", !.error = "KeyError"]
                            ELSE [status |-> "ok", error |-> "",
                                  snomed_concept_ids |-> search.snomed_concept_ids,
                                  snomed_concepts |->
                                      names_of(concept_id_to_concept, search.snomed_concept_ids)]]
    /\ UNCHANGED <<heap, G_loaded, concept_id_to_concept, workload, workers, req, names, http, umls>>

SearchFinish ==
    /\ search.pc = "done"
    /\ search' = IdleSearch
    /\ UNCHANGED <<heap, G_loaded, concept_id_to_concept, workload, workers, req, names, http, umls>>

---------------------------------------------------------------------------
(* State of the /graph endpoint *)

NoResponse == [status |-> "none", error |-> "", text |-> <<>>, image |-> FALSE]

IdleReq ==
    [pc |-> "idle", snomed_concepts |-> <<>>, graph_search_depth |-> 0,
     subgraphs |-> <<>>, draw |-> "none", text |-> <<>>, response |-> NoResponse]

EdgeChoices ==
    {<<u, v, t>> : u \in NodeIds, v \in NodeIds, t \in RelTypes} \ 
    {<<u, u, t>> : u \in NodeIds, t \in RelTypes}

\* load_networkx_graph: a graph built edge by edge
LoadedGraphs == {add_edges_from(EmptyGraph, es) : es \in SeqsUpTo(EdgeChoices, MaxEdges)}

\* load_concept_dict: a vocabulary that lacks the keys M
Vocabularies(Ms) == {ConceptDict(Keys \ M) : M \in Ms}

RECURSIVE Flatten(_)
Flatten(groups) == IF groups = <<>> THEN <<>> ELSE Head(groups) \o Flatten(Tail(groups))

\* Every graph over NodeIds is loaded, so the identifiers are interchangeable:
\* a request's seeds are numbered in the order they first appear in it.
FirstAppearanceOrder(f) ==
    \A i \in 1..Len(f) : \A v \in 1..(f[i] - 1) : \E j \in 1..(i - 1) : f[j] = v

SeedGroups == SeqsUpTo(NodeIds, MaxGroupLen)

SeedInputs == {sc \in SeqsUpTo(SeedGroups, MaxGroups) : FirstAppearanceOrder(Flatten(sc))}

\* cherrypy.request.json of a /graph request: either key may be missing
GraphBodies ==
    {[keys |-> K, snomed_concepts |-> sc, graph_search_depth |-> d] :
        K \in SUBSET {"snomed_concepts", "graph_search_depth"},
        sc \in SeedInputs, d \in 0..MaxDepth}

\* the bodies of a workload: any body, or the bodies with a single group of seeds
Bodies(kind) ==
    IF kind = "one_group" THEN {b \in GraphBodies : Len(b.snomed_concepts) = 1}
    ELSE GraphBodies

G == heap[GRef]

composed_graph(r) == heap[r]

---------------------------------------------------------------------------
(* generate_follow_up_questions_from_concepts and generate_summary_from_qa. *)
(* The text generators they call (geniusrise_healthcare.qa, .summary) are   *)
(* opaque: only the names handed to them and returned are kept.             *)

NoNames == [status |-> "none", error |-> "", snomed_concepts |-> <<>>]

IdleNames == [pc |-> "idle", op |-> "", snomed_concept_ids |-> <<>>, result |-> NoNames]

\* snomed_concept_ids: List[List[int]]
ConceptGroups == SeqsUpTo(SeqsUpTo(ConceptIds, MaxGroupLen), MaxGroups)

\* base.py:136: [concept_id_to_concept.get(str(node), "0") for node in _conditions]
conditions_of(d, _conditions) ==
    [i \in 1..Len(_conditions) |->
        IF str(_conditions[i]) \in DOMAIN d THEN d[str(_conditions[i])] ELSE "0"]

\* base.py:134-151: one entry per group, with the names of its identifiers
all_follow_up_questions(d, snomed_concept_ids) ==
    [g \in 1..Len(snomed_concept_ids) |-> conditions_of(d, snomed_concept_ids[g])]

\* base.py:181: concept_id_to_concept[str(y)] raises KeyError for a missing key
summary_raises_KeyError(d, snomed_concept_ids) ==
    \E i \in 1..Len(Flatten(snomed_concept_ids)) :
        str(Flatten(snomed_concept_ids)[i]) \notin DOMAIN d

\* base.py:181: [concept_id_to_concept[str(y)] for x in snomed_concept_ids for y in x]
summary_concepts(d, snomed_concept_ids) ==
    [i \in 1..Len(Flatten(snomed_concept_ids)) |-> d[str(Flatten(snomed_concept_ids)[i])]]

\* base.py:111-153
FollowUpQuestions ==
    /\ names.pc = "idle"
    /\ \E snomed_concept_ids \in ConceptGroups :
          names' = [pc |-> "done", op |-> "follow_up",
                    snomed_concept_ids |-> snomed_concept_ids,
                    result |-> [status |-> "ok", error |-> "",
                                snomed_concepts |->
                                    all_follow_up_questions(concept_id_to_concept,
                                                            snomed_concept_ids)]]
    /\ UNCHANGED <<heap, G_loaded, concept_id_to_concept, workload, workers, req, search, http, umls>>

\* base.py:156-192
SummaryFromQa ==
    /\ names.pc = "idle"
    /\ \E snomed_concept_ids \in ConceptGroups :
          names' = [pc |-> "done", op |-> "summary",
                    snomed_concept_ids |-> snomed_concept_ids,
                    result |->
                        IF summary_raises_KeyError(concept_id_to_concept, snomed_concept_ids)
                            THEN [NoNames EXCEPT !.status = "error", !.error = "KeyError"]
                            ELSE [status |-> "ok", error |-> "",
                                  snomed_concepts |->
                                      summary_concepts(concept_id_to_concept,
                                                       snomed_concept_ids)]]
    /\ UNCHANGED <<heap, G_loaded, concept_id_to_concept, workload, workers, req, search, http, umls>>

NamesFinish ==
    /\ names.pc = "done"
    /\ names' = IdleNames
    /\ UNCHANGED <<heap, G_loaded, concept_id_to_concept, workload, workers, req, search, http, umls>>

---------------------------------------------------------------------------
(* InPatientAPI._check_auth and the guard of the five handlers.  A string   *)
(* is the sequence of its characters; an Optional[str] is a record that is  *)
(* None or holds a string.  base64 is decoded as base64.b64decode decodes   *)
(* it, utf-8 as bytes.decode does on the bytes that occur here (ASCII, or   *)
(* 0xFF, which is no valid start byte).                                     *)

None == [some |-> FALSE, v |-> <<>>]

Some(s) == [some |-> TRUE, v |-> s]

\* truth value of an Optional[str]: None and "" are false
Truthy(x) == x.some /\ x.v # <<>>

Ascii == ("a" :> 97) @@ (":" :> 58)

ord(c) == Ascii[c]

chr(b) == CHOOSE c \in DOMAIN Ascii : Ascii[c] = b

B64 ==
    <<"A", "B", "C", "D", "E", "F", "G", "H", "I", "J", "K", "L", "M", "N", "O", "P",
      "Q", "R", "S", "T", "U", "V", "W", "X", "Y", "Z", "a", "b", "c", "d", "e", "f",
      "g", "h", "i", "j", "k", "l", "m", "n", "o", "p", "q", "r", "s", "t", "u", "v",
      "w", "x", "y", "z", "0", "1", "2", "3", "4", "5", "6", "7", "8", "9", "+", "/">>

B64Index(c) == (CHOOSE i \in 1..64 : B64[i] = c) - 1

\* base64.b64encode, as a client encodes its credentials
RECURSIVE b64encode(_)
b64encode(bytes) ==
    IF bytes = <<>> THEN <<>>
    ELSE IF Len(bytes) = 1 THEN
        LET n == bytes[1] * 65536
        IN  <<B64[(n \div 262144) + 1], B64[((n \div 4096) % 64) + 1], "=", "=">>
    ELSE IF Len(bytes) = 2 THEN
        LET n == bytes[1] * 65536 + bytes[2] * 256
        IN  <<B64[(n \div 262144) + 1], B64[((n \div 4096) % 64) + 1],
              B64[((n \div 64) % 64) + 1], "=">>
    ELSE
        LET n == bytes[1] * 65536 + bytes[2] * 256 + bytes[3]
        IN  <<B64[(n \div 262144) + 1], B64[((n \div 4096) % 64) + 1],
              B64[((n \div 64) % 64) + 1], B64[(n % 64) + 1]>>
                \o b64encode(SubSeq(bytes, 4, Len(bytes)))

\* the bytes of one group of four base64 characters
b64quad(q) ==
    LET n == B64Index(q[1]) * 262144 + B64Index(q[2]) * 4096
                 + (IF q[3] = "=" THEN 0 ELSE B64Index(q[3]) * 64)
                 + (IF q[4] = "=" THEN 0 ELSE B64Index(q[4]))
    IN  IF q[3] = "=" THEN <<n \div 65536>>
        ELSE IF q[4] = "=" THEN <<n \div 65536, (n \div 256) % 256>>
        ELSE <<n \div 65536, (n \div 256) % 256, n % 256>>

RECURSIVE b64bytes(_)
b64bytes(chars) ==
    IF chars = <<>> THEN <<>>
    ELSE b64quad(SubSeq(chars, 1, 4)) \o b64bytes(SubSeq(chars, 5, Len(chars)))

\* base64.b64decode raises binascii.Error for data that is not whole groups
b64decode_raises(chars) == Len(chars) % 4 # 0

\* bytes.decode("utf-8") raises UnicodeDecodeError on a byte that starts no character
utf8_raises(bytes) == \E i \in 1..Len(bytes) : bytes[i] >= 128

utf8_decode(bytes) == [i \in 1..Len(bytes) |-> chr(bytes[i])]

utf8_encode(text) == [i \in 1..Len(text) |-> ord(text[i])]

\* auth_decoded.split(":", 1)
split_once(text) ==
    IF \A i \in 1..Len(text) : text[i] # ":" THEN <<text>>
    ELSE LET i == CHOOSE j \in 1..Len(text) :
                      text[j] = ":" /\ \A k \in 1..(j - 1) : text[k] # ":"
         IN  <<SubSeq(text, 1, i - 1), SubSeq(text, i + 1, Len(text))>>

\* genius.py:77-86: "pass", or the exception that leaves _check_auth
check_auth(auth_header, username, password) ==
    IF ~Truthy(auth_header) THEN "HTTPError 401"
    ELSE LET payload == SubSeq(auth_header.v, 7, Len(auth_header.v))
         IN  IF b64decode_raises(payload) THEN "binascii.Error"
             ELSE IF utf8_raises(b64bytes(payload)) THEN "UnicodeDecodeError"
             ELSE LET parts == split_once(utf8_decode(b64bytes(payload)))
                  IN  IF Len(parts) < 2 THEN "ValueError"
                      ELSE IF parts[1] # username \/ parts[2] # password
                          THEN "HTTPError 401"
                          ELSE "pass"

Endpoints == {"ner", "semantic_search", "follow_up", "summary", "graph"}

CredChars == {"a", ":"}

\* the username and password parameters of a handler
Params == {None} \cup {Some(t) : t \in SeqsUpTo(CredChars, MaxCred)}

Basic == <<"B", "a", "s", "i", "c", " ">>

Token == <<"T", "o", "k", "e", "n", " ">>

\* what a client puts after the scheme: encoded credentials, the same with the
\* padding left off, or characters that encode no text
Payloads ==
    LET encoded == {b64encode(utf8_encode(t)) : t \in SeqsUpTo(CredChars, MaxDecoded)}
    IN  encoded \cup {SelectSeq(e, LAMBDA c : c # "=") : e \in encoded}
            \cup {<<"/", "/", "/", "/">>}

\* cherrypy.request.headers.get("Authorization")
AuthHeaders ==
    {None, Some(<<>>), Some(SubSeq(Basic, 1, 5))}
        \cup {Some(scheme \o payload) : scheme \in {Basic, Token}, payload \in Payloads}

NoAnswer == [status |-> "none", error |-> ""]

IdleHttp ==
    [pc |-> "idle", endpoint |-> "", username |-> None, password |-> None,
     auth_header |-> None, core_ran |-> FALSE, response |-> NoAnswer]

\* genius.py:92-93 (and 111-112, 133-134, 163-164, 194-195): a request reaches
\* the handler of endpoint e; the check runs only if both parameters are truthy
Handle(e) ==
    /\ http.pc = "idle"
    /\ \E username \in Params, password \in Params, auth_header \in AuthHeaders :
          http' = [IdleHttp EXCEPT
                      !.pc = IF Truthy(username) /\ Truthy(password) THEN "auth" ELSE "core",
                      !.endpoint = e, !.username = username, !.password = password,
                      !.auth_header = auth_header]
    /\ UNCHANGED <<heap, G_loaded, concept_id_to_concept, workload, workers, req, search, names, umls>>

\* genius.py:77-86
CheckAuth ==
    /\ http.pc = "auth"
    /\ LET outcome == check_auth(http.auth_header, http.username.v, http.password.v)
       IN  http' = IF outcome = "pass"
                       THEN [http EXCEPT !.pc = "core"]
                       ELSE [http EXCEPT !.pc = "done",
                                         !.response = [status |-> "error", error |-> outcome]]
    /\ UNCHANGED <<heap, G_loaded, concept_id_to_concept, workload, workers, req, search, names, umls>>

\* genius.py:94-105 (and 114-127, 135-157, 165-189, 197-205): the handler reads
\* the body and invokes its core operation
CallCore ==
    /\ http.pc = "core"
    /\ http' = [http EXCEPT !.pc = "done", !.core_ran = TRUE,
                            !.response = [status |-> "ok", error |-> ""]]
    /\ UNCHANGED <<heap, G_loaded, concept_id_to_concept, workload, workers, req, search, names, umls>>

HttpFinish ==
    /\ http.pc = "done"
    /\ http' = IdleHttp
    /\ UNCHANGED <<heap, G_loaded, concept_id_to_concept, workload, workers, req, search, names, umls>>

---------------------------------------------------------------------------
(* umls.semantic_types.process_semantic_types_file.  The graph is a         *)
(* networkx.DiGraph whose nodes are concept identifiers (CUIs); a node's    *)
(* attribute dictionary has a semantic_types list or has none.  A row is    *)
(* the sequence of its fields, as read_rrf_file yields it.                  *)

TypeIds == {"T1", "T2"}

NoTypes == [has |-> FALSE, list |-> <<>>]

\* semantic_types.py:58-60: G.nodes[cui]["semantic_types"], created empty when
\* the node has none, then appended to
add_semantic_type_mutant(semantic_types, cui, tui) ==
    [semantic_types EXCEPT ![cui] = [has |-> TRUE, list |-> <<tui>>]]
add_semantic_type(semantic_types, cui, tui) ==
    [semantic_types EXCEPT
        ![cui] = [has |-> TRUE, list |-> Append(IF @.has THEN @.list ELSE <<>>, tui)]]

\* semantic_types.py:56: row[0], row[1] of a row with fewer than two fields
\* raises IndexError
row_raises(row) == Len(row) < 2

\* semantic_types.py:56-60: the node attributes after one row
process_row(g, semantic_types, row) ==
    IF has_node(g, row[1])
        THEN add_semantic_type(semantic_types, row[1], row[2])
        ELSE semantic_types

\* the rows of a semantic types file: (cui, tui), or a row cut short
RowChoices == {<<c, t>> : c \in NodeIds, t \in TypeIds} \cup {<<1>>}

TypesFiles == SeqsUpTo(RowChoices, MaxRows)

\* the graphs the ingestion has built before the semantic types are read
UmlsGraphs == {g \in LoadedGraphs : Cardinality(EdgeSet(g)) <= 1}

IdleUmls ==
    [pc |-> "idle", G |-> EmptyGraph, semantic_types |-> [c \in NodeIds |-> NoTypes],
     rows |-> <<>>, done |-> 0, files |-> 0, error |-> "",
     G_before |-> EmptyGraph, semantic_types_before |-> [c \in NodeIds |-> NoTypes]]

\* semantic_types.py:51-53: the call reads the rows of a file
ProcessSemanticTypesFile ==
    /\ umls.pc = "idle"
    /\ umls.files < MaxFiles
    /\ \E rows \in TypesFiles :
          umls' = [umls EXCEPT !.pc = "rows", !.rows = rows, !.done = 0, !.error = "",
                               !.files = @ + 1,
                               !.G_before = umls.G,
                               !.semantic_types_before = umls.semantic_types]
    /\ UNCHANGED <<heap, G_loaded, concept_id_to_concept, workload, workers, req, search, names, http>>

\* semantic_types.py:54-63: one row of the loop; an exception becomes ValueError
ProcessRow ==
    /\ umls.pc = "rows"
    /\ umls.done < Len(umls.rows)
    /\ LET row == umls.rows[umls.done + 1]
       IN  umls' = IF row_raises(row)
                       THEN [umls EXCEPT !.pc = "done", !.error = "ValueError"]
                       ELSE [umls EXCEPT
                                !.done = @ + 1,
                                !.semantic_types = process_row(umls.G, @, row)]
    /\ UNCHANGED <<heap, G_loaded, concept_id_to_concept, workload, workers, req, search, names, http>>

\* semantic_types.py:54: the rows are exhausted and the function returns
ProcessReturn ==
    /\ umls.pc = "rows"
    /\ umls.done = Len(umls.rows)
    /\ umls' = [umls EXCEPT !.pc = "done"]
    /\ UNCHANGED <<heap, G_loaded, concept_id_to_concept, workload, workers, req, search, names, http>>

\* the caller goes on with the graph as the call left it
TypesFinish ==
    /\ umls.pc = "done"
    /\ umls' = [umls EXCEPT !.pc = "idle"]
    /\ UNCHANGED <<heap, G_loaded, concept_id_to_concept, workload, workers, req, search, names, http>>

\* The state after load_models, for the graphs, vocabularies, request bodies and
\* server threads of a run
Loaded(graphs, dicts, kind, threads) ==
    /\ \E g \in graphs :
          /\ heap = [o \in {GRef} \cup Reqs |-> IF o = GRef THEN g ELSE EmptyGraph]
          /\ G_loaded = g
    /\ concept_id_to_concept \in dicts
    /\ workload = kind
    /\ workers = threads
    /\ req = [r \in Reqs |-> IdleReq]
    /\ search = IdleSearch
    /\ names = IdleNames
    /\ http = IdleHttp
    /\ umls = IdleUmls

\* one thread, every request body, a vocabulary with or without the relationship names
Init == Loaded(LoadedGraphs, Vocabularies({{}, RelTypes}), "any", {1})

\* one thread, one group of seeds, a vocabulary that lacks up to MaxMissing keys
InitRender ==
    Loaded(LoadedGraphs, Vocabularies({M \in SUBSET Keys : Cardinality(M) <= MaxMissing}),
           "one_group", {1})

\* every thread, one group of seeds, the graphs of MaxNode nodes, the whole vocabulary
InitConc ==
    Loaded({g \in LoadedGraphs : Len(g.nodes) = MaxNode}, Vocabularies({{}}),
           "one_group", Reqs)

\* genius.py:194-199: the handler reads the request body
Receive(r) ==
    /\ req[r].pc = "idle"
    /\ r \in workers
    /\ \E data \in Bodies(workload) :
          req' = [req EXCEPT ![r] =
                     [IdleReq EXCEPT
                        !.pc = "expand",
                        !.snomed_concepts = data_get(data, "snomed_concepts", <<>>),
                        !.graph_search_depth = data_get(data, "graph_search_depth", 1)]]
    /\ UNCHANGED <<heap, G_loaded, concept_id_to_concept, workload, workers, search, names, http, umls>>

\* base.py:212-215
Expand(r) ==
    /\ req[r].pc = "expand"
    /\ req' = [req EXCEPT ![r].pc = "compose",
                          ![r].subgraphs =
                              expand_all(req[r].snomed_concepts, G, req[r].graph_search_depth)]
    /\ UNCHANGED <<heap, G_loaded, concept_id_to_concept, workload, workers, search, names, http, umls>>

Fail(r, error) ==
    req' = [req EXCEPT ![r].pc = "done",
                       ![r].response = [NoResponse EXCEPT !.status = "error", !.error = error]]

\* base.py:217-219: subgraphs[0] of an empty list raises IndexError
Compose(r) ==
    /\ req[r].pc = "compose"
    /\ IF req[r].subgraphs = <<>>
          THEN /\ Fail(r, "IndexError")
               /\ UNCHANGED heap
          ELSE /\ heap' = [heap EXCEPT ![ComposeDest(r)] = compose_all(req[r].subgraphs)]
               /\ req' = [req EXCEPT ![r].pc = "draw"]
    /\ UNCHANGED <<G_loaded, concept_id_to_concept, workload, workers, search, names, http, umls>>

\* base.py:221-229: draw_subgraph writes <tmp_file>.png, writes nothing, or raises
Draw(r) ==
    /\ req[r].pc = "draw"
    /\ \/ req' = [req EXCEPT ![r].pc = "render", ![r].draw = "saved"]
       \/ req' = [req EXCEPT ![r].pc = "render", ![r].draw = "nofile"]
       \/ req' = [req EXCEPT ![r].pc = "done", ![r].draw = "raised",
                             ![r].response =
                                 [NoResponse EXCEPT !.status = "error", !.error = "RenderIOFailure"]]
    /\ UNCHANGED <<heap, G_loaded, concept_id_to_concept, workload, workers, search, names, http, umls>>

\* base.py:231-241
Render(r) ==
    /\ req[r].pc = "render"
    /\ IF raises_KeyError(composed_graph(r), concept_id_to_concept)
          THEN Fail(r, "KeyError")
          ELSE req' = [req EXCEPT ![r].pc = "respond",
                                  ![r].text =
                                      human_readable_str(composed_graph(r), concept_id_to_concept)]
    /\ UNCHANGED <<heap, G_loaded, concept_id_to_concept, workload, workers, search, names, http, umls>>

\* genius.py:207-241: the multipart response, or ValueError("Server crashed")
Respond(r) ==
    /\ req[r].pc = "respond"
    /\ IF req[r].draw = "saved"
          THEN req' = [req EXCEPT ![r].pc = "done",
                                  ![r].response = [status |-> "ok", error |-> "",
                                                   text |-> req[r].text, image |-> TRUE]]
          ELSE Fail(r, "ValueError")
    /\ UNCHANGED <<heap, G_loaded, concept_id_to_concept, workload, workers, search, names, http, umls>>

\* the request is over; its locals are dropped and the worker takes the next one
Finish(r) ==
    /\ req[r].pc = "done"
    /\ req' = [req EXCEPT ![r] = IdleReq]
    /\ heap' = [heap EXCEPT ![r] = IF r = GRef THEN @ ELSE EmptyGraph]
    /\ UNCHANGED <<G_loaded, concept_id_to_concept, workload, workers, search, names, http, umls>>

Next ==
    \E r \in Reqs :
        \/ Receive(r)
        \/ Expand(r)
        \/ Compose(r)
        \/ Draw(r)
        \/ Render(r)
        \/ Respond(r)
        \/ Finish(r)

Spec == Init /\ [][Next]_vars

SpecRender == InitRender /\ [][Next]_vars

SpecConc == InitConc /\ [][Next]_vars

\* the search endpoint: no graph, a vocabulary that lacks at most one concept
InitSearch ==
    /\ heap = [o \in {GRef} \cup Reqs |-> EmptyGraph]
    /\ G_loaded = EmptyGraph
    /\ concept_id_to_concept \in
           {ConceptDict({str(c) : c \in ConceptIds} \ M) :
               M \in {X \in SUBSET {str(c) : c \in ConceptIds} : Cardinality(X) <= 1}}
    /\ workload = "none"
    /\ workers = {}
    /\ req = [r \in Reqs |-> IdleReq]
    /\ search = IdleSearch
    /\ names = IdleNames
    /\ http = IdleHttp
    /\ umls = IdleUmls

NextSearch ==
    \/ SemanticSearchEndpoint
    \/ SemanticSearchCall
    \/ SearchTerm
    \/ SearchReturn
    \/ SearchFinish

SpecSearch == InitSearch /\ [][NextSearch]_vars

\* the three operations that resolve identifiers to names, one call at a time
NextNames ==
    \/ names.pc = "idle" /\ NextSearch
    \/ search.pc = "idle" /\ FollowUpQuestions
    \/ search.pc = "idle" /\ SummaryFromQa
    \/ NamesFinish

SpecNames == InitSearch /\ [][NextNames]_vars

\* the handlers' authentication: no graph, the whole vocabulary
InitAuth ==
    /\ heap = [o \in {GRef} \cup Reqs |-> EmptyGraph]
    /\ G_loaded = EmptyGraph
    /\ concept_id_to_concept = ConceptDict(Keys)
    /\ workload = "none"
    /\ workers = {}
    /\ req = [r \in Reqs |-> IdleReq]
    /\ search = IdleSearch
    /\ names = IdleNames
    /\ http = IdleHttp
    /\ umls = IdleUmls

NextAuth ==
    \/ \E e \in Endpoints : Handle(e)
    \/ CheckAuth
    \/ CallCore
    \/ HttpFinish

SpecAuth == InitAuth /\ [][NextAuth]_vars

\* the UMLS ingestion: a graph without semantic types yet
InitTypes ==
    /\ heap = [o \in {GRef} \cup Reqs |-> EmptyGraph]
    /\ G_loaded = EmptyGraph
    /\ concept_id_to_concept = ConceptDict(Keys)
    /\ workload = "none"
    /\ workers = {}
    /\ req = [r \in Reqs |-> IdleReq]
    /\ search = IdleSearch
    /\ names = IdleNames
    /\ http = IdleHttp
    /\ \E g \in UmlsGraphs : umls = [IdleUmls EXCEPT !.G = g, !.G_before = g]

NextTypes ==
    \/ ProcessSemanticTypesFile
    \/ ProcessRow
    \/ ProcessReturn
    \/ TypesFinish

SpecTypes == InitTypes /\ [][NextTypes]_vars

---------------------------------------------------------------------------
(* Properties of the /graph endpoint *)

IsEmptyGraph(g) == g.nodes = <<>>

\* the composition of request r has raised or produced composed_graph
CompositionRan(r) == req[r].pc \in {"draw", "render", "respond", "done"}

\* the composition of request r has produced composed_graph
Composed(r) ==
    \/ req[r].pc \in {"draw", "render", "respond"}
    \/ req[r].pc = "done" /\ req[r].response.error # "IndexError"

\* the rendering loop of request r has run
RenderRan(r) ==
    \/ req[r].pc = "respond"
    \/ req[r].pc = "done" /\ req[r].response.error \in {"", "KeyError", "ValueError"}

\* generate_snomed_graph_from_concepts has returned its text for request r
TextReturned(r) ==
    \/ req[r].pc = "respond"
    \/ req[r].pc = "done" /\ req[r].response.error \in {"", "ValueError"}

Seeds(r) == Range(Flatten(req[r].snomed_concepts))

\* the name an identifier is to be shown with: its entry, or the identifier itself
ShownNode(n) ==
    IF str(n) \in DOMAIN concept_id_to_concept THEN concept_id_to_concept[str(n)] ELSE str(n)

ShownRelationship(t) ==
    IF t \in DOMAIN concept_id_to_concept THEN concept_id_to_concept[t] ELSE t

(* C1: an edge whose relationship_type has no entry in concept_id_to_concept
   is shown in the text with the raw identifier between --[ and ]-->, and the
   call does not raise.  Stated for every request whose rendering loop has
   run; the code raises KeyError at base.py:238. *)
C1_UnresolvedRelationshipShownRaw ==
    \A r \in Reqs :
        (RenderRan(r) /\ raises_KeyError(composed_graph(r), concept_id_to_concept)) =>
            /\ req[r].response.error # "KeyError"
            /\ Len(req[r].text) = 1 + Len(edges(composed_graph(r)))
            /\ \A i \in 1..Len(edges(composed_graph(r))) :
                  LET e == edges(composed_graph(r))[i]
                  IN  req[r].text[i + 1] =
                          ShownNode(e[1]) \o " --[" \o ShownRelationship(e[3]) \o "]--> "
                              \o ShownNode(e[2])

(* C2: when the list of expanded subgraphs holds no non-empty subgraph (it is
   empty, or all of its subgraphs are empty), composition fails and no
   composed graph is returned.  Stated with any error counting as the
   failure; the code composes a list of empty subgraphs into an empty graph
   and carries on. *)
C2_NoNonEmptySubgraphFails ==
    \A r \in Reqs :
        (CompositionRan(r) /\ \A i \in 1..Len(req[r].subgraphs) : IsEmptyGraph(req[r].subgraphs[i])) =>
            /\ req[r].pc = "done"
            /\ req[r].response.status = "error"
            /\ req[r].response.error \in {"EmptyCompositionError", "IndexError"}

(* C3: a request whose diagram could not be persisted (draw_subgraph raised,
   or the image file does not exist afterwards) is not aborted: its response
   carries the text.  Stated for the requests whose text can be built (no
   unresolved relationship_type). *)
C3_DrawFailureStillReturnsText ==
    \A r \in Reqs :
        (/\ req[r].pc = "done"
         /\ req[r].draw \in {"raised", "nofile"}
         /\ ~raises_KeyError(composed_graph(r), concept_id_to_concept)) =>
            /\ req[r].response.status # "error"
            /\ req[r].response.text =
                   human_readable_str(composed_graph(r), concept_id_to_concept)

(* C7: whatever graph requests have run, one after the other or interleaved,
   the shared graph G is the graph that was loaded at startup: same nodes,
   same edges, same attributes, in the same order. *)
C7_SharedGraphNeverWritten == G = G_loaded

\* one request has been answered with its graph while another, with a different
\* non-empty composed graph that is not all of G, is still being served
C7_Witness ==
    \E r1 \in Reqs, r2 \in Reqs :
        /\ r1 # r2
        /\ req[r1].pc = "done" /\ req[r1].response.status = "ok"
        /\ req[r2].pc = "render"
        /\ ~IsEmptyGraph(composed_graph(r1)) /\ ~IsEmptyGraph(composed_graph(r2))
        /\ composed_graph(r1) # composed_graph(r2)
        /\ NodeSet(composed_graph(r2)) # NodeSet(G)

\* n is at most d undirected hops from s in g
UndirectedAdjacent(g, a, b) == <<a, b>> \in EdgeSet(g) \/ <<b, a>> \in EdgeSet(g)

WithinHops(g, s, n, d) ==
    \E k \in 0..d : \E path \in [1..(k + 1) -> NodeSet(g)] :
        /\ path[1] = s
        /\ path[k + 1] = n
        /\ \A i \in 1..k : UndirectedAdjacent(g, path[i], path[i + 1])

(* C8: every node of the composed graph is at undirected distance at most
   graph_search_depth, in G, from one of the request's seeds. *)
C8_ComposedNodesWithinDepth ==
    \A r \in Reqs :
        Composed(r) =>
            \A n \in NodeSet(composed_graph(r)) :
                \E s \in Seeds(r) : WithinHops(G, s, n, req[r].graph_search_depth)

\* the bound cut the expansion: a node of G next to the composed graph is not in it
C8_Witness ==
    \E r \in Reqs :
        /\ req[r].pc = "draw"
        /\ req[r].graph_search_depth = 1
        /\ Len(composed_graph(r).nodes) >= 2
        /\ \E n \in NodeSet(G) \ NodeSet(composed_graph(r)) :
              \E m \in NodeSet(composed_graph(r)) : UndirectedAdjacent(G, m, n)

Permuted(s, p) == [i \in 1..Len(s) |-> s[p[i]]]

(* C9: composing the subgraphs of a request in any order gives the node set
   and the edge set of the graph composed in the request's order. *)
C9_CompositionOrderIndependent ==
    \A r \in Reqs :
        req[r].pc = "draw" =>
            \A p \in Permutations(1..Len(req[r].subgraphs)) :
                LET other == compose_all(Permuted(req[r].subgraphs, p))
                IN  /\ NodeSet(other) = NodeSet(composed_graph(r))
                    /\ EdgeSet(other) = EdgeSet(composed_graph(r))

\* three subgraphs with different nodes, whose composition in reverse order is a
\* different graph object (its nodes come in another order) with edges
C9_Witness ==
    \E r \in Reqs :
        /\ req[r].pc = "draw"
        /\ Len(req[r].subgraphs) = 3
        /\ \A i, j \in 1..3 :
              i # j => NodeSet(req[r].subgraphs[i]) # NodeSet(req[r].subgraphs[j])
        /\ EdgeSet(composed_graph(r)) # {}
        /\ compose_all(Permuted(req[r].subgraphs, [i \in 1..3 |-> 4 - i])) # composed_graph(r)

(* C10: the text that is returned is the header line, then exactly one line
   for each edge of the composed graph, in the order edges() gives them, each
   "<from> --[<relationship name>]--> <to>" with an endpoint shown by its name,
   or by its identifier when the lookup has no entry for it. *)
C10_TextIsHeaderThenOneLinePerEdge ==
    \A r \in Reqs :
        TextReturned(r) =>
            LET es == edges(composed_graph(r))
            IN  /\ req[r].text[1] = "Graph:"
                /\ Len(req[r].text) = 1 + Cardinality(EdgeSet(composed_graph(r)))
                /\ {<<es[i][1], es[i][2]>> : i \in 1..Len(es)} = EdgeSet(composed_graph(r))
                /\ \A i \in 1..Len(es) :
                      req[r].text[i + 1] =
                          ShownNode(es[i][1]) \o " --[" \o concept_id_to_concept[es[i][3]]
                              \o "]--> " \o ShownNode(es[i][2])

\* a returned text of two edge lines, with a named endpoint and an unnamed one
C10_Witness ==
    \E r \in Reqs :
        /\ req[r].pc = "respond"
        /\ Len(req[r].text) = 3
        /\ \E n \in NodeSet(composed_graph(r)) : str(n) \in DOMAIN concept_id_to_concept
        /\ \E n \in NodeSet(composed_graph(r)) : str(n) \notin DOMAIN concept_id_to_concept

---------------------------------------------------------------------------
(* Properties of semantic_search_snomed *)

\* the score find_semantically_similar_nodes gave concept c for term t
ScoreOf(t, c) == CHOOSE sc \in ScoreLevels : <<c, sc>> \in search.found[t]

\* the group of identifiers the loop added for term t
GroupOf(t) == search.snomed_concept_ids[search.group_of[t]]

TermsWithGroup == {t \in 1..Len(search.found) : search.group_of[t] > 0}

(* C4: the identifiers returned for a term are in descending order of score
   (the i-th never has a lower score than the (i+1)-th), and when at least
   top_k distinct candidates clear the cutoff they are the top_k with the
   highest scores.  The code lists them through set(), which orders them by
   identifier. *)
C4_GroupRankedByScore ==
    \A t \in TermsWithGroup :
        /\ \A j \in 1..(Len(GroupOf(t)) - 1) :
              ScoreOf(t, GroupOf(t)[j]) >= ScoreOf(t, GroupOf(t)[j + 1])
        /\ Cardinality(search.found[t]) >= search.top_k =>
              /\ Len(GroupOf(t)) = search.top_k
              /\ \A h \in search.found[t] :
                    h[1] \notin Range(GroupOf(t)) =>
                        \A j \in 1..Len(GroupOf(t)) : ScoreOf(t, GroupOf(t)[j]) >= h[2]

(* C5: with top_k = k >= 1 and cutoff c (at the endpoint: the default top_k
   and the request's cutoff or 0.6), every group of identifiers, in the loop
   and in the result, holds at most k identifiers, each of a candidate whose
   score is at least c. *)
C5_GroupsWithinTopKAndCutoff ==
    search.top_k >= 1 =>
        /\ \A t \in TermsWithGroup :
              /\ Len(GroupOf(t)) <= search.top_k
              /\ \A j \in 1..Len(GroupOf(t)) :
                    \E h \in search.found[t] :
                        h[1] = GroupOf(t)[j] /\ h[2] >= search.semantic_similarity_cutoff
        /\ \A g \in 1..Len(search.snomed_concept_ids) :
              \E t \in TermsWithGroup : search.group_of[t] = g
        /\ search.result.status = "ok" =>
              search.result.snomed_concept_ids = search.snomed_concept_ids

\* an endpoint request answered with a group cut to the default top_k, one of
\* whose candidates sits exactly at the cutoff
C5_Witness ==
    /\ search.pc = "done"
    /\ search.via = "endpoint"
    /\ search.result.status = "ok"
    /\ \E t \in TermsWithGroup :
          /\ Cardinality(search.found[t]) > search.top_k
          /\ Len(search.result.snomed_concept_ids[search.group_of[t]]) = DefaultTopK
          /\ \E h \in search.found[t] :
                h[1] \in Range(GroupOf(t)) /\ h[2] = search.semantic_similarity_cutoff

(* C6: a term for which no candidate clears the cutoff adds no identifier and
   no group, and raises nothing; when that is so for every term the call
   returns normally with empty snomed_concept_ids and empty snomed_concepts. *)
C6_NoMatchIsNotAnError ==
    /\ \A t \in 1..Len(search.found) : search.found[t] = {} => search.group_of[t] = 0
    /\ Len(search.snomed_concept_ids) = Cardinality(TermsWithGroup)
    /\ (search.pc = "done" /\ \A t \in 1..Len(search.found) : search.found[t] = {}) =>
          /\ search.result.status = "ok"
          /\ search.result.snomed_concept_ids = <<>>
          /\ search.result.snomed_concepts = <<>>

\* a call with MaxTerms terms, none of which matched, has returned
C6_Witness ==
    /\ search.pc = "done"
    /\ search.terms = MaxTerms
    /\ Len(search.found) = MaxTerms
    /\ \A t \in 1..Len(search.found) : search.found[t] = {}
    /\ search.result.status = "ok"
    /\ search.result.snomed_concept_ids = <<>>

---------------------------------------------------------------------------
(* Properties of name resolution *)

\* the names of the identifiers of a list, each its entry or the identifier itself
ShownNodes(ids) == [i \in 1..Len(ids) |-> ShownNode(ids[i])]

(* C11: in semantic_search_snomed, generate_follow_up_questions_from_concepts
   and generate_summary_from_qa, an identifier with no entry in
   concept_id_to_concept is resolved to its raw identifier string, and the
   call raises nothing.  The code raises KeyError in the first and the third
   (base.py:107, 181) and resolves to "0" in the second (base.py:136). *)
C11_UnresolvedIdentifierShownRaw ==
    /\ search.pc = "done" =>
          /\ search.result.status = "ok"
          /\ search.result.snomed_concepts =
                 [g \in 1..Len(search.snomed_concept_ids) |->
                     ShownNodes(search.snomed_concept_ids[g])]
    /\ (names.pc = "done" /\ names.op = "follow_up") =>
          /\ names.result.status = "ok"
          /\ names.result.snomed_concepts =
                 [g \in 1..Len(names.snomed_concept_ids) |->
                     ShownNodes(names.snomed_concept_ids[g])]
    /\ (names.pc = "done" /\ names.op = "summary") =>
          /\ names.result.status = "ok"
          /\ names.result.snomed_concepts = ShownNodes(Flatten(names.snomed_concept_ids))

---------------------------------------------------------------------------
(* Properties of authentication *)

\* the request carries an Authorization header whose decoded value is exactly
\* username:password
Authorized ==
    /\ Truthy(http.auth_header)
    /\ LET payload == SubSeq(http.auth_header.v, 7, Len(http.auth_header.v))
       IN  /\ ~b64decode_raises(payload)
           /\ ~utf8_raises(b64bytes(payload))
           /\ utf8_decode(b64bytes(payload)) = http.username.v \o <<":">> \o http.password.v

(* C12: for every handler, when its username and password are both
   non-empty, the core operation is invoked only if the request carries an
   Authorization header whose decoded value is exactly username:password, and
   a request whose header is missing or does not match is answered with a 401
   error, before any core operation runs.  The code answers a header that
   decodes to no "user:password" pair with the exception of the decoding or
   of the unpacking, not with 401. *)
C12_UnauthorizedIs401 ==
    (http.pc # "idle" /\ Truthy(http.username) /\ Truthy(http.password)) =>
        /\ (http.core_ran \/ http.pc = "core") => Authorized
        /\ (http.pc = "done" /\ ~Authorized) =>
              /\ ~http.core_ran
              /\ http.response = [status |-> "error", error |-> "HTTPError 401"]

---------------------------------------------------------------------------
(* Properties of process_semantic_types_file *)

\* the type identifiers of the rows that name concept c, in row order
TypesNamed(rows, c) ==
    LET naming == SelectSeq(rows, LAMBDA row : row[1] = c)
    IN  [k \in 1..Len(naming) |-> naming[k][2]]

(* C13: after process_semantic_types_file has processed its rows without
   error, the semantic_types list of every node named by a row is the list
   the node had before followed by the type identifier of every row naming
   it, in row order; a node named by no row has the attribute it had (none,
   if it had none); a row naming a concept that is not in G adds no node and
   no attribute; the nodes and edges of G are those it had before. *)
C13_SemanticTypesAppendedInRowOrder ==
    (umls.pc = "done" /\ umls.error = "") =>
        /\ \A c \in NodeSet(umls.G) :
              IF TypesNamed(umls.rows, c) = <<>>
                  THEN umls.semantic_types[c] = umls.semantic_types_before[c]
                  ELSE /\ umls.semantic_types[c].has
                       /\ umls.semantic_types[c].list =
                              umls.semantic_types_before[c].list \o TypesNamed(umls.rows, c)
        /\ \A c \in NodeIds \ NodeSet(umls.G) : ~umls.semantic_types[c].has
        /\ umls.G = umls.G_before

\* a file has been processed that names a node which already had semantic
\* types, a node which had none and stays without, and a concept not in G
C13_Witness ==
    /\ umls.pc = "done"
    /\ umls.error = ""
    /\ Len(umls.rows) = MaxRows
    /\ \E c \in NodeSet(umls.G) :
          /\ umls.semantic_types_before[c].list # <<>>
          /\ TypesNamed(umls.rows, c) # <<>>
          /\ umls.semantic_types[c].list # umls.semantic_types_before[c].list
    /\ \E c \in NodeSet(umls.G) : ~umls.semantic_types[c].has
    /\ \E i \in 1..Len(umls.rows) : umls.rows[i][1] \notin NodeSet(umls.G)

====
